---- MODULE Spec2Model ----
(***************************************************************************)
(* Verification model of the momoka DA proof verification pipeline:        *)
(* DAStructureQuoteVerifierV2 (verifySigner, verifyPublicationIdMatches,   *)
(* verifyEventWithTypedData) and the checkDAProof orchestration around it. *)
(*                                                                         *)
(* Strings that carry numbers ('0x02', '0x0002') are modelled as the       *)
(* sequence of their hex digits after the '0x' prefix, so that two         *)
(* encodings of one integer are two different values, as in the source.    *)
(***************************************************************************)
EXTENDS Integers, Sequences, FiniteSets, TLC

VARIABLES
  record,     \* the publication record the store holds for the identifier
  chain,      \* chain[b]: on-chain state as of block b (history is immutable)
  cache,      \* idempotency cache entry of the identifier: NoResult or a Result
  pc,         \* pc[c]: verifier state of caller c's checkDAProof run
  local,      \* local[c]: whoSigned / details / attempts of caller c's run
  result,     \* result[c]: the Result returned to caller c, NoResult before
  calls,      \* calls[c]: collaborator invocations made during caller c's run
  unit        \* last direct call of one verifier method, NoCall before

vars == <<record, chain, cache, pc, local, result, calls, unit>>

----------------------------------------------------------------------------
(* Bounds *)

MaxHexLen == 2

MaxBlock == 2

MaxRetries == 1

HexDigitsUsed == {0, 1, 2}

Callers == {"c1", "c2"}

----------------------------------------------------------------------------
(* Hex strings and ethers' BigNumber *)

Radix == 16

HexStrings == UNION {[1..n -> HexDigitsUsed] : n \in 1..MaxHexLen}

RECURSIVE BigNumberFrom(_)
BigNumberFrom(hex) ==
  IF hex = <<>> THEN 0
  ELSE BigNumberFrom(SubSeq(hex, 1, Len(hex) - 1)) * Radix + hex[Len(hex)]

RECURSIVE HexDigits(_)
HexDigits(n) ==
  IF n < Radix THEN <<n>> ELSE Append(HexDigits(n \div Radix), n % Radix)

toHexString(n) ==
  LET d == HexDigits(n)
  IN  IF Len(d) % 2 = 1 THEN <<0>> \o d ELSE d

----------------------------------------------------------------------------
(* Results *)

NoResult == [kind |-> "none"]

NoCall == [op |-> "none"]

NoPayload == [void |-> TRUE]

NoPointer == [kind |-> "absent"]

success(payload) == [kind |-> "success", successResult |-> payload]

failure(error) == [kind |-> "failure", failure |-> error]

isSuccess(r) == r.kind = "success"

isFailure(r) == r.kind = "failure"

MomokaValidatorError ==
  { "NO_SIGNATURE_SUBMITTER", "INVALID_SIGNATURE_SUBMITTER",
    "TIMESTAMP_PROOF_INVALID_SIGNATURE", "TIMESTAMP_PROOF_NOT_SUBMITTER",
    "INVALID_EVENT_TIMESTAMP", "NOT_CLOSEST_BLOCK",
    "INVALID_POINTER_SET_NOT_NEEDED", "SIMULATION_FAILED",
    "SIMULATION_NODE_COULD_NOT_RUN", "INVALID_FORMATTED_TYPED_DATA",
    "EVENT_MISMATCH", "PUBLICATION_NONCE_INVALID",
    "PUBLICATION_SIGNER_NOT_ALLOWED", "UNKNOWN" }

----------------------------------------------------------------------------
(* Values the records and the chain are built from *)

Addresses == {"0xA", "0xB"}

ProfileIds == {<<0, 1>>, <<0, 2>>}

PubIds == {<<0, 1>>, <<0, 2>>}

PubCounts == {<<0, 0>>, <<0, 1>>}

ContentURIs == {"ar://content-a", "ar://content-b"}

Modules == {"0xModuleA", "0xModuleB"}

Nonces == {3, 4}

DaIds == {<<"538ca3", "a1">>, <<"538ca3", "b2">>, <<"77f0e1", "a1">>}

TimestampFailures ==
  { "NO_SIGNATURE_SUBMITTER", "TIMESTAMP_PROOF_INVALID_SIGNATURE",
    "TIMESTAMP_PROOF_NOT_SUBMITTER", "INVALID_EVENT_TIMESTAMP",
    "NOT_CLOSEST_BLOCK" }

(* `${profileId}-${pubId}-DA-${dataAvailabilityId.split('-')[0]}` *)
generatePublicationId(profileId, pubId, dataAvailabilityId) ==
  <<profileId, pubId, "DA", Head(dataAvailabilityId)>>

PublicationIds ==
  {generatePublicationId(p, n, d) : p \in ProfileIds, n \in PubIds, d \in DaIds}

(* Every field of a Quote V2 record and of the chain state at its block,   *)
(* with the values it is drawn from.                                       *)
FieldValues ==
  [ publicationId        |-> PublicationIds,
    dataAvailabilityId   |-> DaIds,
    evPubId              |-> PubIds,
    evProfileId          |-> ProfileIds,
    evContentURI         |-> ContentURIs,
    evPointedProfileId   |-> ProfileIds,
    evPointedPubId       |-> PubIds,
    evReferenceModule    |-> Modules,
    tdProfileId          |-> ProfileIds,
    tdContentURI         |-> ContentURIs,
    tdPointedProfileId   |-> ProfileIds,
    tdPointedPubId       |-> PubIds,
    tdReferenceModule    |-> Modules,
    tdNonce              |-> Nonces,
    signature            |-> Addresses \cup {"malformed"},
    signedByDelegate     |-> BOOLEAN,
    pointer              |-> {NoPointer, success(NoPayload),
                              failure("PUBLICATION_SIGNER_NOT_ALLOWED")},
    pointedLocation      |-> {"onchain", "da"},
    timestampProofs      |-> {"valid"} \cup TimestampFailures,
    chNonces             |-> Nonces,
    chOwner              |-> Addresses,
    chApproved           |-> {{}, {"0xB"}},
    chPubCount           |-> PubCounts,
    chReverts            |-> BOOLEAN ]

(* The record of a Quote that verifies: signed by the owner 0xA of profile *)
(* 0x01 with nonce 3, first publication of the profile, quoting an         *)
(* on-chain publication.                                                   *)
ValidChoice ==
  [ publicationId        |-> <<<<0, 1>>, <<0, 1>>, "DA", "538ca3">>,
    dataAvailabilityId   |-> <<"538ca3", "a1">>,
    evPubId              |-> <<0, 1>>,
    evProfileId          |-> <<0, 1>>,
    evContentURI         |-> "ar://content-a",
    evPointedProfileId   |-> <<0, 2>>,
    evPointedPubId       |-> <<0, 1>>,
    evReferenceModule    |-> "0xModuleA",
    tdProfileId          |-> <<0, 1>>,
    tdContentURI         |-> "ar://content-a",
    tdPointedProfileId   |-> <<0, 2>>,
    tdPointedPubId       |-> <<0, 1>>,
    tdReferenceModule    |-> "0xModuleA",
    tdNonce              |-> 3,
    signature            |-> "0xA",
    signedByDelegate     |-> FALSE,
    pointer              |-> NoPointer,
    pointedLocation      |-> "onchain",
    timestampProofs      |-> "valid",
    chNonces             |-> 3,
    chOwner              |-> "0xA",
    chApproved           |-> {},
    chPubCount           |-> <<0, 0>>,
    chReverts            |-> FALSE ]

(* Each of the choices with at most one field set to another value. *)
Mutations(values, choices) ==
  UNION { UNION { {[c EXCEPT ![f] = v] : v \in values[f]}
                  : f \in DOMAIN values }
          : c \in choices }

(* The valid record with every combination of the fields verifySigner     *)
(* reads, each with and without the signedByDelegate flag.                 *)
SignerChoices ==
  { [ValidChoice EXCEPT !.signature = signature, !.tdNonce = nonce,
                        !.chNonces = nonces, !.chOwner = owner,
                        !.chApproved = approved,
                        !.signedByDelegate = signedByDelegate]
      : signature \in FieldValues.signature, nonce \in FieldValues.tdNonce,
        nonces \in FieldValues.chNonces, owner \in FieldValues.chOwner,
        approved \in FieldValues.chApproved,
        signedByDelegate \in FieldValues.signedByDelegate }

(* The valid record with at most two fields changed, and SignerChoices. *)
Choices ==
  Mutations(FieldValues, Mutations(FieldValues, {ValidChoice}))
    \cup SignerChoices

MkQuote(c) ==
  [ type               |-> "QUOTE_CREATED",
    publicationId      |-> c.publicationId,
    dataAvailabilityId |-> c.dataAvailabilityId,
    event |->
      [ pubId |-> c.evPubId,
        quoteParams |->
          [ profileId        |-> c.evProfileId,
            contentURI       |-> c.evContentURI,
            pointedProfileId |-> c.evPointedProfileId,
            pointedPubId     |-> c.evPointedPubId,
            referenceModule  |-> c.evReferenceModule ] ],
    chainProofs |->
      [ thisPublication |->
          [ typedData |->
              [ value |->
                  [ profileId        |-> c.tdProfileId,
                    contentURI       |-> c.tdContentURI,
                    pointedProfileId |-> c.tdPointedProfileId,
                    pointedPubId     |-> c.tdPointedPubId,
                    referenceModule  |-> c.tdReferenceModule,
                    nonce            |-> c.tdNonce ] ],
            signature        |-> c.signature,
            signedByDelegate |-> c.signedByDelegate,
            blockNumber      |-> 1 ],
        pointer         |-> c.pointer,
        pointedLocation |-> c.pointedLocation ],
    timestampProofs |-> c.timestampProofs ]

(* Chain state as of one block: per profile, what the LensHub holds. The   *)
(* second profile is owned by 0xB and is the same in every run.            *)
MkSnapshot(c) ==
  [ p \in ProfileIds |->
      IF p = <<0, 1>>
      THEN [ nonces |-> c.chNonces, ownerOfAddress |-> c.chOwner,
             approvedExecutors |-> c.chApproved,
             currentPublicationId |-> c.chPubCount,
             reverts |-> c.chReverts ]
      ELSE [ nonces |-> 3, ownerOfAddress |-> "0xB",
             approvedExecutors |-> {},
             currentPublicationId |-> <<0, 0>>,
             reverts |-> FALSE ] ]

----------------------------------------------------------------------------
(* Post records, for the Post verifier *)

EMPTY_BYTE == "0x"

ReturnData == {EMPTY_BYTE, "not_empty_bytes"}

PostEventFields ==
  { "evPubId", "evProfileId", "evContentURI", "evCollectModule",
    "evCollectModuleReturnData", "evReferenceModule",
    "evReferenceModuleReturnData" }

PostFieldValues ==
  [ evPubId                     |-> PubIds,
    evProfileId                 |-> ProfileIds,
    evContentURI                |-> ContentURIs,
    evCollectModule             |-> Modules,
    evCollectModuleReturnData   |-> ReturnData,
    evReferenceModule           |-> Modules,
    evReferenceModuleReturnData |-> ReturnData,
    tdProfileId                 |-> ProfileIds,
    tdContentURI                |-> ContentURIs,
    tdCollectModule             |-> Modules,
    tdReferenceModule           |-> Modules,
    tdNonce                     |-> Nonces,
    signature                   |-> Addresses \cup {"malformed"},
    pointer                     |-> {NoPointer, success(NoPayload)},
    chOwner                     |-> Addresses,
    chPubCount                  |-> PubCounts ]

ValidPostChoice ==
  [ publicationId               |-> <<<<0, 1>>, <<0, 1>>, "DA", "538ca3">>,
    dataAvailabilityId          |-> <<"538ca3", "a1">>,
    evPubId                     |-> <<0, 1>>,
    evProfileId                 |-> <<0, 1>>,
    evContentURI                |-> "ar://content-a",
    evCollectModule             |-> "0xModuleA",
    evCollectModuleReturnData   |-> EMPTY_BYTE,
    evReferenceModule           |-> "0xModuleA",
    evReferenceModuleReturnData |-> EMPTY_BYTE,
    tdProfileId                 |-> <<0, 1>>,
    tdContentURI                |-> "ar://content-a",
    tdCollectModule             |-> "0xModuleA",
    tdReferenceModule           |-> "0xModuleA",
    tdNonce                     |-> 3,
    signature                   |-> "0xA",
    signedByDelegate            |-> FALSE,
    pointer                     |-> NoPointer,
    timestampProofs             |-> "valid",
    chNonces                    |-> 3,
    chOwner                     |-> "0xA",
    chApproved                  |-> {},
    chPubCount                  |-> <<0, 0>>,
    chReverts                   |-> FALSE ]

PostChoices ==
  Mutations(PostFieldValues, Mutations(PostFieldValues, {ValidPostChoice}))

MkPost(c) ==
  [ type               |-> "POST_CREATED",
    publicationId      |-> c.publicationId,
    dataAvailabilityId |-> c.dataAvailabilityId,
    event |->
      [ pubId                     |-> c.evPubId,
        profileId                 |-> c.evProfileId,
        contentURI                |-> c.evContentURI,
        collectModule             |-> c.evCollectModule,
        collectModuleReturnData   |-> c.evCollectModuleReturnData,
        referenceModule           |-> c.evReferenceModule,
        referenceModuleReturnData |-> c.evReferenceModuleReturnData ],
    chainProofs |->
      [ thisPublication |->
          [ typedData |->
              [ value |->
                  [ profileId       |-> c.tdProfileId,
                    contentURI      |-> c.tdContentURI,
                    collectModule   |-> c.tdCollectModule,
                    referenceModule |-> c.tdReferenceModule,
                    nonce           |-> c.tdNonce ] ],
            signature        |-> c.signature,
            signedByDelegate |-> c.signedByDelegate,
            blockNumber      |-> 1 ],
        pointer         |-> c.pointer,
        pointedLocation |-> "none" ],
    timestampProofs |-> c.timestampProofs ]

(* Post verifier without the checks of the modules' return data. *)
postVerifyEventWithTypedData_NoReturnData(daPublication, pubCountAtBlock) ==
  LET event     == daPublication.event
      typedData == daPublication.chainProofs.thisPublication.typedData
  IN  IF toHexString(BigNumberFrom(pubCountAtBlock) + 1) # event.pubId
      THEN failure("EVENT_MISMATCH")
      ELSE IF \/ typedData.value.profileId # event.profileId
              \/ typedData.value.contentURI # event.contentURI
              \/ typedData.value.collectModule # event.collectModule
              \/ typedData.value.referenceModule # event.referenceModule
      THEN failure("EVENT_MISMATCH")
      ELSE success(NoPayload)

(* Post verifier: the counter, every signed field against the event, and   *)
(* empty return data of the collect and reference modules.                 *)
postVerifyEventWithTypedData(daPublication, pubCountAtBlock) ==
  LET event     == daPublication.event
      typedData == daPublication.chainProofs.thisPublication.typedData
  IN  IF toHexString(BigNumberFrom(pubCountAtBlock) + 1) # event.pubId
      THEN failure("EVENT_MISMATCH")
      ELSE IF \/ typedData.value.profileId # event.profileId
              \/ typedData.value.contentURI # event.contentURI
              \/ typedData.value.collectModule # event.collectModule
              \/ event.collectModuleReturnData # EMPTY_BYTE
              \/ typedData.value.referenceModule # event.referenceModule
              \/ event.referenceModuleReturnData # EMPTY_BYTE
      THEN failure("EVENT_MISMATCH")
      ELSE success(NoPayload)

postVerifyPublicationIdMatches(daPublication) ==
  generatePublicationId(daPublication.event.profileId,
                        daPublication.event.pubId,
                        daPublication.dataAvailabilityId)
    = daPublication.publicationId

----------------------------------------------------------------------------
(* DAStructureQuoteVerifierV2 *)

isDAQuotePublicationV2(daPublication) ==
  /\ daPublication.type = "QUOTE_CREATED"
  /\ "quoteParams" \in DOMAIN daPublication.event

(* whoSignedTypedData: the address the signature recovers to over the      *)
(* record's typed data, or INVALID_FORMATTED_TYPED_DATA.                   *)
whoSignedTypedData(typedData, signature) ==
  IF signature \in Addresses
  THEN success(signature)
  ELSE failure("INVALID_FORMATTED_TYPED_DATA")

(* A gateway that answers from the latest block whatever block is asked    *)
(* for.                                                                    *)
getOnChainProfileDetails_Latest(blockNumber, profileId, signedByAddress) ==
  LET s == chain[Len(chain)][profileId]
  IN  [ nonces                   |-> s.nonces,
        currentPublicationId     |-> s.currentPublicationId,
        ownerOfAddress           |-> s.ownerOfAddress,
        isSignerApprovedExecutor |-> signedByAddress \in s.approvedExecutors ]

(* LensHubV2Gateway.getOnChainProfileDetails, answered from the chain      *)
(* state as of blockNumber.                                                *)
getOnChainProfileDetails(blockNumber, profileId, signedByAddress) ==
  LET s == chain[blockNumber][profileId]
  IN  [ nonces                   |-> s.nonces,
        currentPublicationId     |-> s.currentPublicationId,
        ownerOfAddress           |-> s.ownerOfAddress,
        isSignerApprovedExecutor |-> signedByAddress \in s.approvedExecutors ]

(* verifySigner querying the gateway at the current head of the chain. *)
profileDetailsQuery_AtHead(daPublication, whoSigned) ==
  [ blockNumber     |-> Len(chain),
    profileId       |->
      daPublication.chainProofs.thisPublication.typedData.value.profileId,
    signedByAddress |-> whoSigned ]

(* The query verifySigner sends to the gateway. *)
profileDetailsQuery(daPublication, whoSigned) ==
  [ blockNumber     |-> daPublication.chainProofs.thisPublication.blockNumber,
    profileId       |->
      daPublication.chainProofs.thisPublication.typedData.value.profileId,
    signedByAddress |-> whoSigned ]

(* What a failing gateway query reports. *)
GatewayFailures == {"SIMULATION_NODE_COULD_NOT_RUN"}

(* verifySigner with the authority check placed before the nonce check. *)
verifySignerChecks_AuthorityFirst(details, typedData, whoSigned) ==
  IF /\ details.ownerOfAddress # whoSigned
     /\ details.isSignerApprovedExecutor = FALSE
  THEN failure("PUBLICATION_SIGNER_NOT_ALLOWED")
  ELSE IF details.nonces # typedData.value.nonce
  THEN failure("PUBLICATION_NONCE_INVALID")
  ELSE success([ currentPublicationId |-> details.currentPublicationId,
                 ownerOfAddress       |-> details.ownerOfAddress ])

(* verifySigner with the executor approval test inverted. *)
verifySignerChecks_OwnerOnly(details, typedData, whoSigned) ==
  IF details.nonces # typedData.value.nonce
  THEN failure("PUBLICATION_NONCE_INVALID")
  ELSE IF /\ details.ownerOfAddress # whoSigned
          /\ details.isSignerApprovedExecutor = TRUE
  THEN failure("PUBLICATION_SIGNER_NOT_ALLOWED")
  ELSE success([ currentPublicationId |-> details.currentPublicationId,
                 ownerOfAddress       |-> details.ownerOfAddress ])

(* verifySigner without the nonce check. *)
verifySignerChecks_NoNonce(details, typedData, whoSigned) ==
  IF /\ details.ownerOfAddress # whoSigned
     /\ details.isSignerApprovedExecutor = FALSE
  THEN failure("PUBLICATION_SIGNER_NOT_ALLOWED")
  ELSE success([ currentPublicationId |-> details.currentPublicationId,
                 ownerOfAddress       |-> details.ownerOfAddress ])

(* verifySigner choosing the authority test by the record's                *)
(* signedByDelegate flag: the executor approval for a delegate, the        *)
(* ownership otherwise.                                                    *)
verifySignerChecks_BySignedByDelegate(details, typedData, whoSigned) ==
  IF details.nonces # typedData.value.nonce
  THEN failure("PUBLICATION_NONCE_INVALID")
  ELSE IF \/ /\ record.chainProofs.thisPublication.signedByDelegate
              /\ details.isSignerApprovedExecutor = FALSE
          \/ /\ ~record.chainProofs.thisPublication.signedByDelegate
              /\ details.ownerOfAddress # whoSigned
  THEN failure("PUBLICATION_SIGNER_NOT_ALLOWED")
  ELSE success([ currentPublicationId |-> details.currentPublicationId,
                 ownerOfAddress       |-> details.ownerOfAddress ])

(* verifySigner from the profile details on: nonce, then authority. *)
verifySignerChecks(details, typedData, whoSigned) ==
  IF details.nonces # typedData.value.nonce
  THEN failure("PUBLICATION_NONCE_INVALID")
  ELSE IF /\ details.ownerOfAddress # whoSigned
          /\ details.isSignerApprovedExecutor = FALSE
  THEN failure("PUBLICATION_SIGNER_NOT_ALLOWED")
  ELSE success([ currentPublicationId |-> details.currentPublicationId,
                 ownerOfAddress       |-> details.ownerOfAddress ])

(* verifySigner evaluating the authority test whatever the nonce test      *)
(* found.                                                                  *)
checksEvaluated_Both(details, typedData) ==
  <<"nonce", "authority">>

(* The checks verifySigner reaches, in order, for these details. *)
checksEvaluated(details, typedData) ==
  IF details.nonces # typedData.value.nonce
  THEN <<"nonce">>
  ELSE <<"nonce", "authority">>

(* verifyPublicationIdMatches comparing only the profile and publication   *)
(* parts of the identifier.                                                *)
verifyPublicationIdMatches_IgnoresDataAvailabilityId(daPublication) ==
  LET generatedPublicationId ==
        generatePublicationId(daPublication.event.quoteParams.profileId,
                              daPublication.event.pubId,
                              daPublication.dataAvailabilityId)
  IN  SubSeq(generatedPublicationId, 1, 2)
        = SubSeq(daPublication.publicationId, 1, 2)

verifyPublicationIdMatches(daPublication) ==
  LET generatedPublicationId ==
        generatePublicationId(daPublication.event.quoteParams.profileId,
                              daPublication.event.pubId,
                              daPublication.dataAvailabilityId)
  IN  generatedPublicationId = daPublication.publicationId

(* verifyEventWithTypedData without the publication counter check. *)
verifyEventWithTypedData_NoCounter(daPublication, pubCountAtBlock) ==
  LET event     == daPublication.event
      typedData == daPublication.chainProofs.thisPublication.typedData
  IN  IF \/ typedData.value.profileId # event.quoteParams.profileId
         \/ typedData.value.contentURI # event.quoteParams.contentURI
         \/ typedData.value.pointedProfileId
              # event.quoteParams.pointedProfileId
         \/ typedData.value.pointedPubId # event.quoteParams.pointedPubId
      THEN failure("EVENT_MISMATCH")
      ELSE success(NoPayload)

(* verifyEventWithTypedData comparing numeric fields as big integers. *)
verifyEventWithTypedData_ByValue(daPublication, pubCountAtBlock) ==
  LET event     == daPublication.event
      typedData == daPublication.chainProofs.thisPublication.typedData
  IN  IF BigNumberFrom(pubCountAtBlock) + 1 # BigNumberFrom(event.pubId)
      THEN failure("EVENT_MISMATCH")
      ELSE IF \/ BigNumberFrom(typedData.value.profileId)
                   # BigNumberFrom(event.quoteParams.profileId)
              \/ typedData.value.contentURI # event.quoteParams.contentURI
              \/ BigNumberFrom(typedData.value.pointedProfileId)
                   # BigNumberFrom(event.quoteParams.pointedProfileId)
              \/ BigNumberFrom(typedData.value.pointedPubId)
                   # BigNumberFrom(event.quoteParams.pointedPubId)
      THEN failure("EVENT_MISMATCH")
      ELSE success(NoPayload)

(* verifyEventWithTypedData without the comparison of profileId. *)
verifyEventWithTypedData_NoProfileId(daPublication, pubCountAtBlock) ==
  LET event     == daPublication.event
      typedData == daPublication.chainProofs.thisPublication.typedData
  IN  IF toHexString(BigNumberFrom(pubCountAtBlock) + 1) # event.pubId
      THEN failure("EVENT_MISMATCH")
      ELSE IF \/ typedData.value.contentURI # event.quoteParams.contentURI
              \/ typedData.value.pointedProfileId
                   # event.quoteParams.pointedProfileId
              \/ typedData.value.pointedPubId # event.quoteParams.pointedPubId
      THEN failure("EVENT_MISMATCH")
      ELSE success(NoPayload)

(* verifyEventWithTypedData without the comparison of pointedPubId. *)
verifyEventWithTypedData_NoPointedPubId(daPublication, pubCountAtBlock) ==
  LET event     == daPublication.event
      typedData == daPublication.chainProofs.thisPublication.typedData
  IN  IF toHexString(BigNumberFrom(pubCountAtBlock) + 1) # event.pubId
      THEN failure("EVENT_MISMATCH")
      ELSE IF \/ typedData.value.profileId # event.quoteParams.profileId
              \/ typedData.value.contentURI # event.quoteParams.contentURI
              \/ typedData.value.pointedProfileId
                   # event.quoteParams.pointedProfileId
      THEN failure("EVENT_MISMATCH")
      ELSE success(NoPayload)

verifyEventWithTypedData(daPublication, pubCountAtBlock) ==
  LET event     == daPublication.event
      typedData == daPublication.chainProofs.thisPublication.typedData
  IN  IF toHexString(BigNumberFrom(pubCountAtBlock) + 1) # event.pubId
      THEN failure("EVENT_MISMATCH")
      ELSE IF \/ typedData.value.profileId # event.quoteParams.profileId
              \/ typedData.value.contentURI # event.quoteParams.contentURI
              \/ typedData.value.pointedProfileId
                   # event.quoteParams.pointedProfileId
              \/ typedData.value.pointedPubId # event.quoteParams.pointedPubId
      THEN failure("EVENT_MISMATCH")
      ELSE success(NoPayload)

----------------------------------------------------------------------------
(* Stages of the pipeline around the verifier *)

(* Pointer Resolver: the decision table over (location of the pointed-to   *)
(* publication, pointer proof present). pointer holds the outcome of       *)
(* verifying the pointed-to publication when a proof is attached.          *)
(* Pointer Resolver that verifies an attached pointer proof whether or not  *)
(* the publication needs one.                                              *)
checkPointer_VerifiesAnyPointer(daPublication) ==
  LET pointer  == daPublication.chainProofs.pointer
      location == daPublication.chainProofs.pointedLocation
  IN  IF pointer # NoPointer
      THEN pointer
      ELSE IF daPublication.type = "POST_CREATED" \/ location = "onchain"
      THEN success(NoPayload)
      ELSE failure("UNKNOWN")

checkPointer(daPublication) ==
  LET pointer  == daPublication.chainProofs.pointer
      location == daPublication.chainProofs.pointedLocation
  IN  IF daPublication.type = "POST_CREATED" \/ location = "onchain"
      THEN IF pointer = NoPointer
           THEN success(NoPayload)
           ELSE failure("INVALID_POINTER_SET_NOT_NEEDED")
      ELSE IF pointer = NoPointer
           THEN failure("UNKNOWN")
           ELSE pointer

(* Dispatch to the verifier of the record's type. *)
verifierEventCheck(daPublication, pubCountAtBlock) ==
  IF isDAQuotePublicationV2(daPublication)
  THEN verifyEventWithTypedData(daPublication, pubCountAtBlock)
  ELSE postVerifyEventWithTypedData(daPublication, pubCountAtBlock)

verifierPublicationIdCheck(daPublication) ==
  IF isDAQuotePublicationV2(daPublication)
  THEN verifyPublicationIdMatches(daPublication)
  ELSE postVerifyPublicationIdMatches(daPublication)

(* Timestamp Proof Verifier: timestampProofs names the defect of the       *)
(* attestation, if it has one.                                             *)
checkTimestampProofs(daPublication) ==
  IF daPublication.timestampProofs = "valid"
  THEN success(NoPayload)
  ELSE failure(daPublication.timestampProofs)

(* Simulator backend, when it runs: the quote replayed at blockNumber. *)
simulate(blockNumber, daPublication) ==
  LET profileId ==
        daPublication.chainProofs.thisPublication.typedData.value.profileId
  IN  [reverted |-> chain[blockNumber][profileId].reverts]

(* Infrastructure kinds are transient and are not persisted. *)
isTransient(r) ==
  isFailure(r) /\ r.failure = "SIMULATION_NODE_COULD_NOT_RUN"

(* A cache that persists whatever a run returns. *)
put_EveryResult(r) == r

put(r) == IF isTransient(r) THEN cache ELSE r

----------------------------------------------------------------------------
(* State *)

NoDetails == [nonces |-> -1]

NoLocal ==
  [ whoSigned  |-> "none",     \* verifySigner: recovered address
    details    |-> NoDetails,  \* verifySigner: profile details read
    checks     |-> <<>>,       \* verifySigner: checks evaluated, in order
    attempts   |-> 0,          \* simulation attempts that could not run
    rejectedAt |-> "none",     \* the state the run was rejected from
    gatewayFailure |-> "none" ] \* verifySigner: failure of the gateway query

NoCalls == [store |-> 0, gateway |-> {}, simulator |-> 0]

thisPublication == record.chainProofs.thisPublication

(* A stage fails: the run is REJECTED, the Result persisted and returned. *)
Reject(c, r, l) ==
  /\ pc' = [pc EXCEPT ![c] = "REJECTED"]
  /\ result' = [result EXCEPT ![c] = r]
  /\ cache' = put(r)
  /\ local' = [local EXCEPT ![c] = [l EXCEPT !.rejectedAt = pc[c]]]

(* A stage passes. *)
Advance(c, state, l) ==
  /\ pc' = [pc EXCEPT ![c] = state]
  /\ local' = [local EXCEPT ![c] = l]
  /\ UNCHANGED <<result, cache>>

InitRun ==
  /\ cache = NoResult
  /\ pc = [c \in Callers |-> "IDLE"]
  /\ local = [c \in Callers |-> NoLocal]
  /\ result = [c \in Callers |-> NoResult]
  /\ calls = [c \in Callers |-> NoCalls]
  /\ unit = NoCall

Init ==
  /\ \E c \in Choices :
        /\ record = MkQuote(c)
        /\ chain = <<MkSnapshot(c)>>
  /\ InitRun

----------------------------------------------------------------------------
(* checkDAProof, one action per stage *)

(* Entry that fetches and verifies without consulting the cache. *)
CheckDAProof_AlwaysVerify(c) ==
  /\ pc[c] = "IDLE"
  /\ pc' = [pc EXCEPT ![c] = "PENDING"]
  /\ calls' = [calls EXCEPT ![c].store = @ + 1]
  /\ UNCHANGED <<record, chain, cache, local, unit, result>>

(* Entry: consult the idempotency cache; on a miss fetch the record. *)
CheckDAProof(c) ==
  /\ pc[c] = "IDLE"
  /\ IF cache # NoResult
     THEN /\ pc' = [pc EXCEPT ![c] = "CACHED"]
          /\ result' = [result EXCEPT ![c] = cache]
          /\ UNCHANGED calls
     ELSE /\ pc' = [pc EXCEPT ![c] = "PENDING"]
          /\ calls' = [calls EXCEPT ![c].store = @ + 1]
          /\ UNCHANGED result
  /\ UNCHANGED <<record, chain, cache, local, unit>>

(* Pointer stage that logs a failure of the resolver and carries on. *)
ResolvePointer_SwallowsFailure(c) ==
  /\ pc[c] = "PENDING"
  /\ Advance(c, "POINTER_CHECKED", local[c])
  /\ UNCHANGED <<record, chain, calls, unit>>

ResolvePointer(c) ==
  /\ pc[c] = "PENDING"
  /\ LET r == checkPointer(record)
     IN  IF isFailure(r)
         THEN Reject(c, r, local[c])
         ELSE Advance(c, "POINTER_CHECKED", local[c])
  /\ UNCHANGED <<record, chain, calls, unit>>

VerifyTimestampProofs(c) ==
  /\ pc[c] = "POINTER_CHECKED"
  /\ LET r == checkTimestampProofs(record)
     IN  IF isFailure(r)
         THEN Reject(c, r, local[c])
         ELSE Advance(c, "TIMESTAMP_CHECKED", local[c])
  /\ UNCHANGED <<record, chain, calls, unit>>

(* verifySigner going on to the gateway whatever whoSignedTypedData        *)
(* returned.                                                               *)
VerifySignerRecover_IgnoresFailure(c) ==
  /\ pc[c] = "TIMESTAMP_CHECKED"
  /\ Advance(c, "SIGNATURE_RECOVERED",
             [local[c] EXCEPT !.whoSigned = thisPublication.signature])
  /\ UNCHANGED <<record, chain, calls, unit>>

(* verifySigner up to its first await: whoSignedTypedData. *)
VerifySignerRecover(c) ==
  /\ pc[c] = "TIMESTAMP_CHECKED"
  /\ LET whoSignedResult ==
           whoSignedTypedData(thisPublication.typedData, thisPublication.signature)
     IN  IF isFailure(whoSignedResult)
         THEN Reject(c, failure(whoSignedResult.failure), local[c])
         ELSE Advance(c, "SIGNATURE_RECOVERED",
                      [local[c] EXCEPT !.whoSigned = whoSignedResult.successResult])
  /\ UNCHANGED <<record, chain, calls, unit>>

(* verifySigner treating a query the gateway could not answer as a signer  *)
(* without authority.                                                      *)
VerifySignerAuthorize_DeniesOnGatewayFailure(c) ==
  /\ pc[c] = "SIGNATURE_RECOVERED"
  /\ LET typedData == thisPublication.typedData
         whoSigned == local[c].whoSigned
         query     == profileDetailsQuery(record, whoSigned)
     IN  /\ calls' = [calls EXCEPT ![c].gateway = @ \cup {query}]
         /\ \/ \E error \in GatewayFailures :
                 Reject(c, failure("PUBLICATION_SIGNER_NOT_ALLOWED"),
                        [local[c] EXCEPT !.gatewayFailure = error])
            \/ LET details == getOnChainProfileDetails(query.blockNumber,
                                query.profileId, query.signedByAddress)
                   r == verifySignerChecks(details, typedData, whoSigned)
                   l == [local[c] EXCEPT
                           !.details = details,
                           !.checks = checksEvaluated(details, typedData)]
               IN  IF isFailure(r)
                   THEN Reject(c, r, l)
                   ELSE Advance(c, "AUTHORIZED", l)
  /\ UNCHANGED <<record, chain, unit>>

(* verifySigner from the gateway query on. The query may fail. *)
VerifySignerAuthorize(c) ==
  /\ pc[c] = "SIGNATURE_RECOVERED"
  /\ LET typedData == thisPublication.typedData
         whoSigned == local[c].whoSigned
         query     == profileDetailsQuery(record, whoSigned)
     IN  /\ calls' = [calls EXCEPT ![c].gateway = @ \cup {query}]
         /\ \/ \E error \in GatewayFailures :
                 Reject(c, failure(error),
                        [local[c] EXCEPT !.gatewayFailure = error])
            \/ LET details == getOnChainProfileDetails(query.blockNumber,
                                query.profileId, query.signedByAddress)
                   r == verifySignerChecks(details, typedData, whoSigned)
                   l == [local[c] EXCEPT
                           !.details = details,
                           !.checks = checksEvaluated(details, typedData)]
               IN  IF isFailure(r)
                   THEN Reject(c, r, l)
                   ELSE Advance(c, "AUTHORIZED", l)
  /\ UNCHANGED <<record, chain, unit>>

(* verifyEventWithTypedData(currentPublicationId), then the identifier. *)
CrossCheckEvent(c) ==
  /\ pc[c] = "AUTHORIZED"
  /\ LET r == verifierEventCheck(record,
                local[c].details.currentPublicationId)
     IN  IF isFailure(r)
         THEN Reject(c, r, local[c])
         ELSE IF ~verifierPublicationIdCheck(record)
         THEN Reject(c, failure("UNKNOWN"), local[c])
         ELSE Advance(c, "EVENT_CROSSCHECKED", local[c])
  /\ UNCHANGED <<record, chain, calls, unit>>

(* Simulation: the backend may be unable to run; that alone is retried. *)
Simulate(c) ==
  /\ pc[c] = "EVENT_CROSSCHECKED"
  /\ calls' = [calls EXCEPT ![c].simulator = @ + 1]
  /\ \/ /\ local[c].attempts < MaxRetries
        /\ local' = [local EXCEPT ![c].attempts = @ + 1]
        /\ UNCHANGED <<pc, result, cache>>
     \/ /\ local[c].attempts = MaxRetries
        /\ Reject(c, failure("SIMULATION_NODE_COULD_NOT_RUN"), local[c])
     \/ IF simulate(thisPublication.blockNumber, record).reverted
        THEN Reject(c, failure("SIMULATION_FAILED"), local[c])
        ELSE Advance(c, "SIMULATED", local[c])
  /\ UNCHANGED <<record, chain, unit>>

Accept(c) ==
  /\ pc[c] = "SIMULATED"
  /\ LET r == success([ signer         |-> local[c].whoSigned,
                        ownerOfAddress |-> local[c].details.ownerOfAddress ])
     IN  /\ pc' = [pc EXCEPT ![c] = "ACCEPTED"]
         /\ result' = [result EXCEPT ![c] = r]
         /\ cache' = put(r)
  /\ UNCHANGED <<record, chain, local, calls, unit>>

(* The chain grows by a block in which profile 0x01 posts, or is           *)
(* transferred to the other address.                                       *)
OtherAddress(a) == CHOOSE b \in Addresses : b # a

NextSnapshot(s, tx) ==
  LET p == s[<<0, 1>>]
  IN  IF tx = "post"
      THEN [s EXCEPT ![<<0, 1>>] =
             [p EXCEPT !.nonces = @ + 1,
                       !.currentPublicationId =
                          toHexString(BigNumberFrom(@) + 1)]]
      ELSE [s EXCEPT ![<<0, 1>>] =
             [p EXCEPT !.ownerOfAddress = OtherAddress(@),
                       !.approvedExecutors = {}]]

ChainAdvance ==
  /\ Len(chain) < MaxBlock
  /\ \E tx \in {"post", "transfer"} :
        chain' = Append(chain, NextSnapshot(chain[Len(chain)], tx))
  /\ UNCHANGED <<record, cache, pc, local, result, calls, unit>>

Next ==
  \/ \E c \in Callers : CheckDAProof(c)
  \/ \E c \in Callers : ResolvePointer(c)
  \/ \E c \in Callers : VerifyTimestampProofs(c)
  \/ \E c \in Callers : VerifySignerRecover(c)
  \/ \E c \in Callers : VerifySignerAuthorize(c)
  \/ \E c \in Callers : CrossCheckEvent(c)
  \/ \E c \in Callers : Simulate(c)
  \/ \E c \in Callers : Accept(c)
  \/ ChainAdvance

Spec == Init /\ [][Next]_vars

(* The same pipeline over Post records. *)
InitPost ==
  /\ \E c \in PostChoices :
        /\ record = MkPost(c)
        /\ chain = <<MkSnapshot(c)>>
  /\ InitRun

SpecPost == InitPost /\ [][Next]_vars

----------------------------------------------------------------------------
(* The verifier's methods called directly, on records whose numeric fields *)
(* range over the encodings of small integers.                             *)

NumericIds == {s \in HexStrings : BigNumberFrom(s) \in {1, 2}}

UnitChoices ==
  { [ValidChoice EXCEPT !.evPubId = pubId,
                        !.evProfileId = profileId,
                        !.evPointedProfileId = pointedProfileId,
                        !.evPointedPubId = pointedPubId,
                        !.evContentURI = contentURI,
                        !.evReferenceModule = referenceModule]
      : pubId \in HexStrings, profileId \in NumericIds,
        pointedProfileId \in NumericIds, pointedPubId \in NumericIds,
        contentURI \in ContentURIs, referenceModule \in Modules }

InitUnit ==
  /\ \E c \in UnitChoices : record = MkQuote(c)
  /\ chain = <<MkSnapshot(ValidChoice)>>
  /\ InitRun

VerifyEventWithTypedDataCall ==
  /\ unit = NoCall
  /\ \E pubCountAtBlock \in HexStrings :
        unit' = [ op              |-> "verifyEventWithTypedData",
                  pubCountAtBlock |-> pubCountAtBlock,
                  result |-> verifyEventWithTypedData(record, pubCountAtBlock) ]
  /\ UNCHANGED <<record, chain, cache, pc, local, result, calls>>

VerifyPublicationIdMatchesCall ==
  /\ unit = NoCall
  /\ unit' = [ op     |-> "verifyPublicationIdMatches",
               result |-> verifyPublicationIdMatches(record) ]
  /\ UNCHANGED <<record, chain, cache, pc, local, result, calls>>

NextUnit ==
  \/ VerifyEventWithTypedDataCall
  \/ VerifyPublicationIdMatchesCall

SpecUnit == InitUnit /\ [][NextUnit]_vars

----------------------------------------------------------------------------
(* Properties of verifySigner *)

HasDetails(c) == local[c].details # NoDetails

Returned(c) == result[c] # NoResult

PastIdCheck == {"EVENT_CROSSCHECKED", "SIMULATED", "ACCEPTED"}

NonceInvalid(c) ==
  local[c].details.nonces # thisPublication.typedData.value.nonce

Unauthorized(c) ==
  /\ local[c].details.ownerOfAddress # local[c].whoSigned
  /\ ~local[c].details.isSignerApprovedExecutor

(* C1: whenever the signature recovered and the profile snapshot was       *)
(* obtained, a snapshot nonce different from the signed nonce together     *)
(* with a signer that is neither owner nor approved executor is rejected   *)
(* as PUBLICATION_NONCE_INVALID, never PUBLICATION_SIGNER_NOT_ALLOWED.     *)
C1_NonceBeforeAuthority ==
  \A c \in Callers :
    (HasDetails(c) /\ NonceInvalid(c) /\ Unauthorized(c))
      => /\ pc[c] = "REJECTED"
         /\ result[c] = failure("PUBLICATION_NONCE_INVALID")

C1_Witness ==
  \E c \in Callers :
    /\ HasDetails(c) /\ NonceInvalid(c) /\ Unauthorized(c)
    /\ pc[c] = "REJECTED"
    /\ local[c].rejectedAt = "SIGNATURE_RECOVERED"

(* C2: with the nonce matching, a recovered signer that is not the owner   *)
(* at the proof's block and not an approved executor is rejected as        *)
(* PUBLICATION_SIGNER_NOT_ALLOWED.                                         *)
C2_UnauthorizedSigner ==
  \A c \in Callers :
    (HasDetails(c) /\ ~NonceInvalid(c) /\ Unauthorized(c))
      => /\ pc[c] = "REJECTED"
         /\ result[c] = failure("PUBLICATION_SIGNER_NOT_ALLOWED")

C2_Witness ==
  \E c \in Callers :
    /\ HasDetails(c) /\ ~NonceInvalid(c) /\ Unauthorized(c)
    /\ local[c].whoSigned = "0xA"
    /\ local[c].details.ownerOfAddress = "0xB"
    /\ result[c] = failure("PUBLICATION_SIGNER_NOT_ALLOWED")

Authorized == {"AUTHORIZED", "EVENT_CROSSCHECKED", "SIMULATED", "ACCEPTED"}

(* C3: a run that is AUTHORIZED, or later up to ACCEPTED, read a snapshot  *)
(* whose nonce equals the signed nonce and in which the recovered signer   *)
(* is the owner or an approved executor.                                   *)
C3_SuccessNeedsBoth ==
  \A c \in Callers :
    pc[c] \in Authorized
      => /\ HasDetails(c)
         /\ ~NonceInvalid(c)
         /\ ~Unauthorized(c)

C3_Witness ==
  \E c \in Callers :
    /\ pc[c] = "ACCEPTED"
    /\ local[c].details.ownerOfAddress # local[c].whoSigned
    /\ local[c].details.isSignerApprovedExecutor

----------------------------------------------------------------------------
(* Properties of verifyEventWithTypedData *)

EventCall == unit.op = "verifyEventWithTypedData"

eventParams == record.event.quoteParams

signedValue == thisPublication.typedData.value

CounterMatches ==
  BigNumberFrom(record.event.pubId) = BigNumberFrom(unit.pubCountAtBlock) + 1

(* C4: verifyEventWithTypedData(pubCountAtBlock) fails with EVENT_MISMATCH *)
(* whenever the event's pubId is not pubCountAtBlock + 1, whatever the     *)
(* other fields hold.                                                      *)
C4_MonotonicCounter ==
  (EventCall /\ ~CounterMatches) => unit.result = failure("EVENT_MISMATCH")

(* In the pipeline: a run past the cross-check read a counter that the     *)
(* event's pubId follows by one.                                           *)
PubIdFollowsCounter ==
  \A c \in Callers :
    pc[c] \in PastIdCheck
      => BigNumberFrom(record.event.pubId)
           = BigNumberFrom(local[c].details.currentPublicationId) + 1

C4_Witness ==
  /\ EventCall
  /\ ~CounterMatches
  /\ eventParams.profileId = signedValue.profileId
  /\ eventParams.contentURI = signedValue.contentURI
  /\ eventParams.pointedProfileId = signedValue.pointedProfileId
  /\ eventParams.pointedPubId = signedValue.pointedPubId
  /\ eventParams.referenceModule = signedValue.referenceModule
  /\ unit.result = failure("EVENT_MISMATCH")

(* C6: if verifyEventWithTypedData succeeds, every field of the signed     *)
(* typed-data value that has a counterpart in the event, the reference     *)
(* module included, equals that counterpart.                               *)
C6_EverySignedFieldCompared ==
  (EventCall /\ isSuccess(unit.result))
    => /\ signedValue.profileId = eventParams.profileId
       /\ signedValue.contentURI = eventParams.contentURI
       /\ signedValue.pointedProfileId = eventParams.pointedProfileId
       /\ signedValue.pointedPubId = eventParams.pointedPubId
       /\ signedValue.referenceModule = eventParams.referenceModule

SameIntegers ==
  /\ CounterMatches
  /\ BigNumberFrom(eventParams.profileId) = BigNumberFrom(signedValue.profileId)
  /\ BigNumberFrom(eventParams.pointedProfileId)
       = BigNumberFrom(signedValue.pointedProfileId)
  /\ BigNumberFrom(eventParams.pointedPubId)
       = BigNumberFrom(signedValue.pointedPubId)

SameStrings ==
  /\ record.event.pubId = toHexString(BigNumberFrom(unit.pubCountAtBlock) + 1)
  /\ eventParams.profileId = signedValue.profileId
  /\ eventParams.pointedProfileId = signedValue.pointedProfileId
  /\ eventParams.pointedPubId = signedValue.pointedPubId

(* C7 as claimed: numeric fields are compared by integer value, so         *)
(* encodings of the same integers never cause EVENT_MISMATCH.              *)
C7_ComparedByValue ==
  (EventCall /\ SameIntegers /\ signedValue.contentURI = eventParams.contentURI)
    => unit.result # failure("EVENT_MISMATCH")

(* C7 amended: only the counter argument is normalised. The event's pubId  *)
(* must be the canonical hex string of counter + 1 and profileId,          *)
(* pointedProfileId and pointedPubId must be the very strings that were    *)
(* signed: another encoding of the same integer is an EVENT_MISMATCH, and  *)
(* the encoding of the counter argument does not matter.                   *)
C7_ComparedAsStrings ==
  EventCall =>
    /\ (SameIntegers /\ ~SameStrings) => unit.result = failure("EVENT_MISMATCH")
    /\ (SameStrings /\ signedValue.contentURI = eventParams.contentURI)
         => isSuccess(unit.result)

C7_Witness ==
  /\ EventCall
  /\ SameIntegers
  /\ ~SameStrings
  /\ signedValue.contentURI = eventParams.contentURI
  /\ unit.result = failure("EVENT_MISMATCH")

----------------------------------------------------------------------------
(* Properties of the Post verifier in checkDAProof *)

ValidPost == MkPost(ValidPostChoice)

(* The valid Post with exactly one field of its event changed, on the      *)
(* chain state it verifies against.                                        *)
OneEventFieldChanged(f) ==
  /\ chain[1] = MkSnapshot(ValidPostChoice)
  /\ \E v \in PostFieldValues[f] \ {ValidPostChoice[f]} :
        record = MkPost([ValidPostChoice EXCEPT ![f] = v])

(* The run read the chain, or was answered from the cache. *)
Answered(c) == Returned(c) /\ (HasDetails(c) \/ pc[c] = "CACHED")

(* C5: the valid Post is not rejected for its content, and with any one of *)
(* pubId, profileId, contentURI, collectModule, collectModuleReturnData,   *)
(* referenceModule, referenceModuleReturnData of its event changed, every  *)
(* call the gateway answers returns Failure(EVENT_MISMATCH) and no run     *)
(* passes the cross-check.                                                 *)
C5_FieldMismatchExhaustive ==
  /\ (record = ValidPost /\ chain[1] = MkSnapshot(ValidPostChoice))
       => \A c \in Callers :
            (Returned(c) /\ ~isTransient(result[c])) => isSuccess(result[c])
  /\ \A f \in PostEventFields :
       OneEventFieldChanged(f)
         => \A c \in Callers :
              /\ pc[c] \notin PastIdCheck
              /\ Answered(c) => result[c] = failure("EVENT_MISMATCH")

C5_Witness ==
  /\ OneEventFieldChanged("evReferenceModuleReturnData")
  /\ \E c \in Callers :
       /\ local[c].rejectedAt = "AUTHORIZED"
       /\ result[c] = failure("EVENT_MISMATCH")
  /\ \E c \in Callers : pc[c] = "CACHED"

----------------------------------------------------------------------------
(* Properties of verifyPublicationIdMatches and of checkDAProof *)

IdDerived ==
  record.publicationId
    = generatePublicationId(record.event.quoteParams.profileId,
                            record.event.pubId, record.dataAvailabilityId)

IdCheckFailed(c) ==
  /\ pc[c] = "REJECTED"
  /\ local[c].rejectedAt = "AUTHORIZED"
  /\ result[c] # failure("EVENT_MISMATCH")

(* C8: the identifier check passes exactly when publicationId is the       *)
(* identifier derived from the event's profileId and pubId and the         *)
(* dataAvailabilityId; a run whose record fails it is never ACCEPTED; the  *)
(* check changes neither the record nor the chain nor the cache entry of   *)
(* a run that passes it.                                                   *)
C8_IdentifierIntegrity ==
  /\ [](\A c \in Callers :
          /\ pc[c] \in PastIdCheck => IdDerived
          /\ IdCheckFailed(c) => ~IdDerived)
  /\ [][\A c \in Callers :
          (pc[c] = "AUTHORIZED" /\ pc'[c] = "EVENT_CROSSCHECKED")
            => UNCHANGED <<record, chain, cache, calls>>]_vars

C8_Witness ==
  \E c \in Callers : IdCheckFailed(c) /\ ~IdDerived

(* C9: a call that finds a Result in the cache returns exactly that        *)
(* Result and invokes neither the store, the gateway nor the simulator,    *)
(* whatever the chain has become since.                                    *)
C9_CacheShortCircuit ==
  /\ [][\A c \in Callers :
          (pc[c] = "IDLE" /\ pc'[c] # "IDLE" /\ cache # NoResult)
            => /\ pc'[c] = "CACHED"
               /\ result'[c] = cache
               /\ calls'[c] = NoCalls]_vars
  /\ [](\A c \in Callers :
          pc[c] = "CACHED" => (calls[c] = NoCalls /\ result[c] = cache))

C9_Witness ==
  \E c \in Callers :
    /\ pc[c] = "CACHED"
    /\ isSuccess(result[c])
    /\ Len(chain) > 1
    /\ chain[Len(chain)][<<0, 1>>].ownerOfAddress # result[c].successResult.signer
    /\ chain[Len(chain)][<<0, 1>>].approvedExecutors = {}

(* C10 as claimed: every call for the identifier returns the same Result.  *)
C10_EveryCallSameResult ==
  \A c, d \in Callers :
    (Returned(c) /\ Returned(d)) => result[c] = result[d]

(* C10 amended: every call for the identifier that returns a Result other  *)
(* than the transient SIMULATION_NODE_COULD_NOT_RUN returns the same       *)
(* Result, and a Result once persisted is never replaced by another.       *)
C10_Idempotent ==
  /\ [](\A c, d \in Callers :
          ( /\ Returned(c) /\ ~isTransient(result[c])
            /\ Returned(d) /\ ~isTransient(result[d]) )
            => result[c] = result[d])
  /\ [][cache # NoResult => cache' = cache]_vars

C10_Witness ==
  /\ \A c \in Callers : pc[c] = "ACCEPTED"
  /\ Len(chain) > 1
  /\ chain[Len(chain)][<<0, 1>>].ownerOfAddress # chain[1][<<0, 1>>].ownerOfAddress


----------------------------------------------------------------------------
(* Properties of the pipeline's stages *)

NoPointerNeeded ==
  \/ record.type = "POST_CREATED"
  \/ record.chainProofs.pointedLocation = "onchain"

PointerAttached == record.chainProofs.pointer # NoPointer

PastPointerCheck ==
  { "POINTER_CHECKED", "TIMESTAMP_CHECKED", "SIGNATURE_RECOVERED",
    "AUTHORIZED", "EVENT_CROSSCHECKED", "SIMULATED", "ACCEPTED" }

C12_BothPathsEvaluated ==
  \A c \in Callers :
    HasDetails(c) => local[c].checks = <<"nonce", "authority">>

(* C12 amended: the nonce match is evaluated in every run that obtained    *)
(* the profile snapshot, and first; the authority test is evaluated        *)
(* exactly in the runs whose nonce matches. A run whose nonce differs      *)
(* returns PUBLICATION_NONCE_INVALID without evaluating the authority      *)
(* test, and a run passes only after both were evaluated.                  *)
C12_AuthorityOnlyAfterNonce ==
  \A c \in Callers :
    /\ HasDetails(c) =>
         /\ Len(local[c].checks) >= 1
         /\ local[c].checks[1] = "nonce"
         /\ NonceInvalid(c) <=> local[c].checks = <<"nonce">>
         /\ ~NonceInvalid(c) <=> local[c].checks = <<"nonce", "authority">>
         /\ NonceInvalid(c) => result[c] = failure("PUBLICATION_NONCE_INVALID")
    /\ pc[c] \in Authorized => local[c].checks = <<"nonce", "authority">>
    /\ ~HasDetails(c) => local[c].checks = <<>>

C12_Witness ==
  \E c \in Callers :
    /\ HasDetails(c) /\ NonceInvalid(c) /\ Unauthorized(c)
    /\ local[c].checks = <<"nonce">>
    /\ result[c] = failure("PUBLICATION_NONCE_INVALID")


StageOrder ==
  << "PENDING", "POINTER_CHECKED", "TIMESTAMP_CHECKED", "SIGNATURE_RECOVERED",
     "AUTHORIZED", "EVENT_CROSSCHECKED", "SIMULATED", "ACCEPTED" >>

StageIndex(state) == CHOOSE i \in 1..Len(StageOrder) : StageOrder[i] = state

Terminal == {"ACCEPTED", "REJECTED", "CACHED"}

(* The last state of the order the run was in. *)
StageReached(c) ==
  IF pc[c] = "REJECTED" THEN local[c].rejectedAt ELSE pc[c]

InPipeline(c) == pc[c] \notin {"IDLE", "CACHED"}

(* What each stage finds on the record and on the chain at its block. *)
PointerResult == checkPointer(record)

TimestampResult == checkTimestampProofs(record)

RecoverResult ==
  whoSignedTypedData(thisPublication.typedData, thisPublication.signature)

PinnedDetails ==
  chain[thisPublication.blockNumber][thisPublication.typedData.value.profileId]

SignerAllowed ==
  /\ PinnedDetails.nonces = thisPublication.typedData.value.nonce
  /\ \/ PinnedDetails.ownerOfAddress = thisPublication.signature
     \/ thisPublication.signature \in PinnedDetails.approvedExecutors

EventResult ==
  verifierEventCheck(record, PinnedDetails.currentPublicationId)

(* The Result with which the stage entered from state s rejects, when it   *)
(* is the record or the chain that fails it.                               *)
StageFailures(s) ==
  CASE s = "PENDING"             -> {PointerResult}
    [] s = "POINTER_CHECKED"     -> {TimestampResult}
    [] s = "TIMESTAMP_CHECKED"   -> {RecoverResult}
    [] s = "SIGNATURE_RECOVERED" ->
         {failure(e) : e \in GatewayFailures}
           \cup (IF PinnedDetails.nonces # thisPublication.typedData.value.nonce
                 THEN {failure("PUBLICATION_NONCE_INVALID")}
                 ELSE {failure("PUBLICATION_SIGNER_NOT_ALLOWED")})
    [] s = "AUTHORIZED"          ->
         IF isFailure(EventResult) THEN {EventResult} ELSE {failure("UNKNOWN")}
    [] s = "EVENT_CROSSCHECKED"  ->
         { failure("SIMULATION_NODE_COULD_NOT_RUN"),
           failure("SIMULATION_FAILED") }
    [] OTHER                     -> {}

(* Every stage before the one entered from state s passed. *)
EarlierStagesPassed(s) ==
  LET i == StageIndex(s)
  IN  /\ i >= 2 => isSuccess(PointerResult)
      /\ i >= 3 => isSuccess(TimestampResult)
      /\ i >= 4 => isSuccess(RecoverResult)
      /\ i >= 5 => SignerAllowed
      /\ i >= 6 => isSuccess(EventResult) /\ verifierPublicationIdCheck(record)
      /\ i >= 7 => ~PinnedDetails.reverts

(* C13: a run moves from a state of the order PENDING .. SIMULATED to the  *)
(* next state of the order or to REJECTED and nowhere else; ACCEPTED and   *)
(* REJECTED are never left and nothing is called or changed in them; a     *)
(* run is in a state only if every earlier stage passed, and a rejected    *)
(* run reports the failure of the stage it was rejected in.                *)
C13_StageOrder ==
  /\ [][\A c \in Callers :
          /\ (InPipeline(c) /\ pc'[c] # pc[c])
               => /\ pc[c] \notin Terminal
                  /\ \/ pc'[c] = StageOrder[StageIndex(pc[c]) + 1]
                     \/ pc'[c] = "REJECTED"
          /\ pc[c] \in Terminal
               => /\ pc'[c] = pc[c]
                  /\ result'[c] = result[c]
                  /\ calls'[c] = calls[c]
                  /\ local'[c] = local[c]]_vars
  /\ [](\A c \in Callers :
          InPipeline(c)
            => /\ EarlierStagesPassed(StageReached(c))
               /\ pc[c] = "REJECTED"
                    => result[c] \in StageFailures(StageReached(c)))

(* A record that fails two stages is rejected by the earlier one. *)
C13_Witness ==
  /\ isFailure(TimestampResult)
  /\ isFailure(RecoverResult)
  /\ \E c \in Callers :
       /\ pc[c] = "REJECTED"
       /\ local[c].rejectedAt = "POINTER_CHECKED"
       /\ result[c] = TimestampResult
  /\ \E c \in Callers : pc[c] = "CACHED"


----------------------------------------------------------------------------
(* Properties of the idempotency cache and of repeated runs *)

CouldNotRun == failure("SIMULATION_NODE_COULD_NOT_RUN")

(* Some call returned, and every call that returned could not run. *)
OnlyTransientSoFar ==
  /\ \E c \in Callers : Returned(c)
  /\ \A c \in Callers : Returned(c) => result[c] = CouldNotRun

(* C14: the cache never holds Failure(SIMULATION_NODE_COULD_NOT_RUN); a    *)
(* run whose simulation could not run, retries included, returns that      *)
(* failure and leaves the cache as it was; and while that is all that was  *)
(* ever returned, the next call fetches the record and verifies it again.  *)
C14_TransientNeverCached ==
  /\ [](cache # CouldNotRun)
  /\ [](OnlyTransientSoFar => cache = NoResult)
  /\ [][\A c \in Callers :
          /\ ( /\ pc[c] = "EVENT_CROSSCHECKED" /\ pc'[c] = "REJECTED"
               /\ PinnedDetails.reverts = FALSE )
               => (result'[c] = CouldNotRun /\ cache' = cache)
          /\ (OnlyTransientSoFar /\ pc[c] = "IDLE" /\ pc'[c] # "IDLE")
               => /\ pc'[c] = "PENDING"
                  /\ calls'[c].store = calls[c].store + 1]_vars

C14_Witness ==
  \E c, d \in Callers :
    /\ pc[c] = "REJECTED"
    /\ local[c].rejectedAt = "EVENT_CROSSCHECKED"
    /\ local[c].attempts = MaxRetries
    /\ result[c] = CouldNotRun
    /\ pc[d] = "PENDING"
    /\ calls[d].store = 1
    /\ calls[d].simulator = 0
    /\ cache = NoResult


(* The run fetched the record and went through the stages itself. *)
Ran(c) == Returned(c) /\ calls[c].store > 0

(* The Result the record and the chain state at its block determine. *)
DeterminedResult ==
  IF isFailure(PointerResult) THEN PointerResult
  ELSE IF isFailure(TimestampResult) THEN TimestampResult
  ELSE IF isFailure(RecoverResult) THEN RecoverResult
  ELSE IF PinnedDetails.nonces # thisPublication.typedData.value.nonce
  THEN failure("PUBLICATION_NONCE_INVALID")
  ELSE IF ~SignerAllowed THEN failure("PUBLICATION_SIGNER_NOT_ALLOWED")
  ELSE IF isFailure(EventResult) THEN EventResult
  ELSE IF ~verifierPublicationIdCheck(record) THEN failure("UNKNOWN")
  ELSE IF PinnedDetails.reverts THEN failure("SIMULATION_FAILED")
  ELSE success([ signer         |-> thisPublication.signature,
                 ownerOfAddress |-> PinnedDetails.ownerOfAddress ])

----------------------------------------------------------------------------
(* Properties of verifySigner's use of the gateway *)

HeadState == chain[Len(chain)]

(* C16: every query a run sends to the gateway names the blockNumber of    *)
(* chainProofs.thisPublication, and the nonce, owner, executor approval    *)
(* and publication counter the run works with are those of that block,     *)
(* whatever blocks the chain has gained before or during the run.          *)
C16_BlockPinning ==
  \A c \in Callers :
    /\ \A q \in calls[c].gateway :
         q.blockNumber = thisPublication.blockNumber
    /\ HasDetails(c)
         => /\ local[c].details.nonces = PinnedDetails.nonces
            /\ local[c].details.ownerOfAddress = PinnedDetails.ownerOfAddress
            /\ local[c].details.isSignerApprovedExecutor
                 = (local[c].whoSigned \in PinnedDetails.approvedExecutors)
            /\ local[c].details.currentPublicationId
                 = PinnedDetails.currentPublicationId

C16_Witness ==
  \E c \in Callers :
    /\ pc[c] = "ACCEPTED"
    /\ calls[c].gateway # {}
    /\ Len(chain) > thisPublication.blockNumber
    /\ HeadState[thisPublication.typedData.value.profileId].nonces
         # local[c].details.nonces
    /\ HeadState[thisPublication.typedData.value.profileId].currentPublicationId
         # local[c].details.currentPublicationId


RecoveryFailed(c) ==
  pc[c] = "REJECTED" /\ local[c].rejectedAt = "TIMESTAMP_CHECKED"

(* C18: a run in which whoSignedTypedData fails returns that failure,      *)
(* INVALID_FORMATTED_TYPED_DATA, and has sent no query to the gateway; a   *)
(* run sends a query only after it recovered an address, and every query   *)
(* names that address as the signer to look up.                            *)
C18_RecoveryBeforeGateway ==
  \A c \in Callers :
    /\ RecoveryFailed(c)
         => /\ result[c] = RecoverResult
            /\ result[c] = failure("INVALID_FORMATTED_TYPED_DATA")
            /\ calls[c].gateway = {}
    /\ calls[c].gateway # {}
         => /\ isSuccess(RecoverResult)
            /\ local[c].whoSigned = RecoverResult.successResult
            /\ \A q \in calls[c].gateway :
                 q.signedByAddress = local[c].whoSigned

C18_Witness ==
  \E c \in Callers :
    /\ RecoveryFailed(c)
    /\ thisPublication.signature = "malformed"
    /\ calls[c] = [NoCalls EXCEPT !.store = 1]
    /\ result[c] = failure("INVALID_FORMATTED_TYPED_DATA")

GatewayFailed(c) == local[c].gatewayFailure # "none"

(* C19: a run whose gateway query failed returns the gateway's failure     *)
(* kind as it is, has evaluated neither the nonce nor the authority test   *)
(* and goes no further; it returns neither PUBLICATION_NONCE_INVALID nor   *)
(* PUBLICATION_SIGNER_NOT_ALLOWED nor Success.                             *)
C19_GatewayFailurePropagated ==
  \A c \in Callers :
    GatewayFailed(c)
      => /\ pc[c] = "REJECTED"
         /\ local[c].rejectedAt = "SIGNATURE_RECOVERED"
         /\ result[c] = failure(local[c].gatewayFailure)
         /\ local[c].checks = <<>>
         /\ ~HasDetails(c)
         /\ result[c] # failure("PUBLICATION_NONCE_INVALID")
         /\ result[c] # failure("PUBLICATION_SIGNER_NOT_ALLOWED")
         /\ ~isSuccess(result[c])

(* The gateway fails on a query for a record whose nonce is stale and      *)
(* whose signer has no authority.                                          *)
C19_Witness ==
  \E c \in Callers :
    /\ GatewayFailed(c)
    /\ PinnedDetails.nonces # thisPublication.typedData.value.nonce
    /\ ~SignerAllowed
    /\ PinnedDetails.ownerOfAddress # local[c].whoSigned
    /\ result[c] = failure("SIMULATION_NODE_COULD_NOT_RUN")

(* verifySigner returned Success in run c. *)
SignerPassed(c) ==
  /\ HasDetails(c)
  /\ ~(pc[c] = "REJECTED" /\ local[c].rejectedAt = "SIGNATURE_RECOVERED")

(* C20: what verifySigner returns is decided by the signed nonce, the      *)
(* recovered signer and the profile's state at the proof's block alone,    *)
(* whatever the record's signedByDelegate flag says: an approved executor  *)
(* passes on a record without the flag and the owner passes on a record    *)
(* with it.                                                                *)
C20_SignedByDelegateIgnored ==
  \A c \in Callers :
    HasDetails(c)
      => /\ SignerPassed(c) <=> SignerAllowed
         /\ ~SignerPassed(c)
              => result[c] = IF NonceInvalid(c)
                             THEN failure("PUBLICATION_NONCE_INVALID")
                             ELSE failure("PUBLICATION_SIGNER_NOT_ALLOWED")
         /\ ( /\ ~NonceInvalid(c)
              /\ ~thisPublication.signedByDelegate
              /\ local[c].whoSigned \in PinnedDetails.approvedExecutors )
              => SignerPassed(c)
         /\ ( /\ ~NonceInvalid(c)
              /\ thisPublication.signedByDelegate
              /\ local[c].whoSigned = PinnedDetails.ownerOfAddress )
              => SignerPassed(c)

(* An approved executor that is not the owner, on a record without the     *)
(* flag, is accepted.                                                      *)
C20_Witness ==
  \E c \in Callers :
    /\ pc[c] = "ACCEPTED"
    /\ thisPublication.signedByDelegate = FALSE
    /\ local[c].whoSigned \in PinnedDetails.approvedExecutors
    /\ local[c].whoSigned # PinnedDetails.ownerOfAddress

----------------------------------------------------------------------------
(* Further properties of verifyEventWithTypedData *)

(* Everything verifyEventWithTypedData looks at, pointedPubId aside, is as *)
(* it accepts it: pubId is the hex string of the counter plus one, and     *)
(* profileId, contentURI and pointedProfileId are the signed ones.         *)
OtherwiseValid ==
  /\ record.event.pubId = toHexString(BigNumberFrom(unit.pubCountAtBlock) + 1)
  /\ eventParams.profileId = signedValue.profileId
  /\ eventParams.contentURI = signedValue.contentURI
  /\ eventParams.pointedProfileId = signedValue.pointedProfileId

(* C17: on such a record verifyEventWithTypedData returns Success when the *)
(* event's pointedPubId is the signed pointedPubId and                     *)
(* Failure(EVENT_MISMATCH) when it is not.                                 *)
C17_PointedPubIdDecides ==
  (EventCall /\ OtherwiseValid)
    => IF eventParams.pointedPubId = signedValue.pointedPubId
       THEN isSuccess(unit.result)
       ELSE unit.result = failure("EVENT_MISMATCH")

C17_Witness ==
  /\ EventCall
  /\ OtherwiseValid
  /\ BigNumberFrom(signedValue.pointedPubId) = 1
  /\ BigNumberFrom(eventParams.pointedPubId) = 2
  /\ unit.result = failure("EVENT_MISMATCH")


----------------------------------------------------------------------------
(* The identifier a verified Quote is accepted under *)

(* The identifier derived from the signed profileId, the publication       *)
(* counter of that profile at the proof's block plus one, and the          *)
(* dataAvailabilityId.                                                     *)
SignedIdentifier ==
  generatePublicationId(
    signedValue.profileId,
    toHexString(BigNumberFrom(PinnedDetails.currentPublicationId) + 1),
    record.dataAvailabilityId)

(* The three checks of the verifier pass on the record, the event check    *)
(* with the counter verifySigner returns.                                  *)
VerifierPasses ==
  /\ isSuccess(RecoverResult)
  /\ LET whoSigned == RecoverResult.successResult
         q == profileDetailsQuery(record, whoSigned)
         signer == verifySignerChecks(
                     getOnChainProfileDetails(q.blockNumber, q.profileId,
                                              q.signedByAddress),
                     thisPublication.typedData, whoSigned)
     IN  /\ isSuccess(signer)
         /\ isSuccess(verifyEventWithTypedData(record,
                         signer.successResult.currentPublicationId))
  /\ verifyPublicationIdMatches(record)

(* C21: a Quote V2 record on which verifySigner succeeds,                  *)
(* verifyEventWithTypedData succeeds with the counter verifySigner         *)
(* returned and verifyPublicationIdMatches is true carries the identifier  *)
(* derived from the signed profileId, the on-chain counter at the proof's  *)
(* block plus one and the dataAvailabilityId; so does the record of every  *)
(* run that got past these checks.                                         *)
C21_IdentifierBoundToSigned ==
  /\ (isDAQuotePublicationV2(record) /\ VerifierPasses)
       => record.publicationId = SignedIdentifier
  /\ \A c \in Callers :
       (isDAQuotePublicationV2(record) /\ pc[c] \in PastIdCheck)
         => /\ VerifierPasses
            /\ record.publicationId = SignedIdentifier

C21_Witness ==
  \E c \in Callers :
    /\ isDAQuotePublicationV2(record)
    /\ pc[c] = "ACCEPTED"
    /\ VerifierPasses
    /\ record.publicationId = SignedIdentifier
    /\ record.publicationId[1] = signedValue.profileId

====
